---- MODULE Spec2Model ----
(***************************************************************************)
(* Model of the annual-report pipeline: analyze_reports.main() and the     *)
(* functions it drives (collect_reports, summarize_individual,             *)
(* make_failure_record, build_aggregate_prompt, aggregate_review), and of   *)
(* the job server web_app.py (safe_join and the file routes, run_analysis, *)
(* run_stream).                                                            *)
(*                                                                         *)
(* Python strings are sequences of Unicode code points, paths are          *)
(* sequences of components, JSON values are tagged records.                *)
(***************************************************************************)
EXTENDS Integers, Sequences, FiniteSets, TLC

VARIABLES
    tree,        \* entries below the input root: [parts, isFile]
    hasKey,      \* DEEPSEEK_API_KEY is set once load_env_from_file has run
    planPrompt,  \* args.plan_prompt: [given |-> BOOLEAN, text |-> Str]
    pc,          \* position of main()
    reports,     \* result of collect_reports
    idx,         \* 1-based index of the report the loop handles next
    people,      \* the batch list of main()
    perReportDir,\* out_dir/per_report exists
    artifacts,   \* per-report artifacts written: set of [dest, data]
    batchFile,   \* individual_summaries.json: [written, data]
    orgFile,     \* organization_review.md: [written, header, body]
    aggResult,   \* outcome of the aggregate phase: [error, markdown]
    aggPrompt,   \* user prompt of the aggregate request: [built, ...]
    log,         \* observable events of the run, in order
    exit,        \* how main() ended
    call,        \* one model call under study: its inputs
    outcome,     \* what that call sent and returned
    fs,          \* the server's file system: set of [path, kind]
    reply,       \* the last HTTP reply of a file route
    environ,     \* os.environ["DEEPSEEK_API_KEY"] of the server process
    runs,        \* the run_analysis calls in progress, by thread
    queue,       \* the queue.Queue of run_stream
    worker,      \* the worker thread of run_stream
    emitted,     \* the events the response generator has yielded
    stdout,      \* sys.stdout and what each redirect_stdout has saved
    other,       \* the thread of another run_analysis call
    clock,       \* the second datetime.now() falls in
    jobs,        \* the run_analysis calls that share RUN_ROOT, by thread
    disk         \* the files below RUN_ROOT: set of [dir, file, by]

mainVars == <<tree, hasKey, planPrompt, pc, reports, idx, people, perReportDir,
              artifacts, batchFile, orgFile, aggResult, aggPrompt, log, exit>>
promptVars == <<call, outcome>>
serverVars == <<fs, reply>>
runVars == <<environ, runs>>
streamVars == <<queue, worker, emitted, stdout, other>>
dirVars == <<clock, jobs, disk>>

vars == <<mainVars, promptVars, serverVars, runVars, streamVars, dirVars>>

\* Largest number of entries placed below the input root.
MaxFiles == 2

----------------------------------------------------------------------------
\* Strings

\* s < t for Python str: code-point lexicographic order.
StrLess(s, t) ==
    \E i \in 1..(Len(s) + 1) :
        /\ i <= Len(t)
        /\ \A j \in 1..(i - 1) : s[j] = t[j]
        /\ (i = Len(s) + 1 \/ s[i] < t[i])

\* str.startswith in place of the substring test.
StartsWith(s, key) ==
    Len(key) <= Len(s) /\ \A j \in 1..Len(key) : s[j] = key[j]

\* key in s for Python str: key occurs as a contiguous substring.
Contains(s, key) ==
    \E i \in 0..(Len(s) - Len(key)) :
        \A j \in 1..Len(key) : s[i + j] = key[j]

\* str.lower() on the ASCII letters.
Lower(s) == [i \in 1..Len(s) |-> IF s[i] >= 65 /\ s[i] <= 90 THEN s[i] + 32 ELSE s[i]]

IsSpace(c) == c \in {32, 9, 10, 13}

\* str.strip(): leading and trailing whitespace removed.
Strip(s) ==
    LET keep == {i \in 1..Len(s) : ~IsSpace(s[i])}
    IN  IF keep = {} THEN <<>>
        ELSE LET lo == CHOOSE i \in keep : \A j \in keep : i <= j
                 hi == CHOOSE i \in keep : \A j \in keep : j <= i
             IN  SubSeq(s, lo, hi)

----------------------------------------------------------------------------
\* pathlib

\* Position of the suffix-starting dot of a file name, 0 when the name has
\* no suffix (no dot, a leading dot only, or a trailing dot).
SuffixDot(name) ==
    LET dots == {i \in 1..Len(name) : name[i] = 46}
    IN  IF dots = {} THEN 0
        ELSE LET last == CHOOSE i \in dots : \A j \in dots : j <= i
             IN  IF last > 1 /\ last < Len(name) THEN last ELSE 0

\* PurePath.suffix
Suffix(name) ==
    IF SuffixDot(name) = 0 THEN <<>> ELSE SubSeq(name, SuffixDot(name), Len(name))

\* PurePath.stem
Stem(name) ==
    IF SuffixDot(name) = 0 THEN name ELSE SubSeq(name, 1, SuffixDot(name) - 1)

FileName(parts) == parts[Len(parts)]

\* PurePath.with_suffix(".json")
WithSuffixJson(parts) ==
    [parts EXCEPT ![Len(parts)] = Stem(FileName(parts)) \o <<46, 106, 115, 111, 110>>]

\* str(path): the components joined by "/".
RECURSIVE PathStr(_)
PathStr(parts) ==
    IF Len(parts) = 1 THEN parts[1]
    ELSE parts[1] \o <<47>> \o PathStr(Tail(parts))

\* Ordering by plain string comparison of str(path).
StrPathLess(p, q) == StrLess(PathStr(p), PathStr(q))

\* PurePath.__lt__: the component lists are compared, component by component.
PathLess(p, q) ==
    \E i \in 1..(Len(p) + 1) :
        /\ i <= Len(q)
        /\ \A j \in 1..(i - 1) : p[j] = q[j]
        /\ (i = Len(p) + 1 \/ StrLess(p[i], q[i]))

\* sorted(root.rglob("*")): the entries in increasing Path order.
RECURSIVE SortedPaths(_)
SortedPaths(S) ==
    IF S = {} THEN <<>>
    ELSE LET m == CHOOSE x \in S : \A y \in S \ {x} : PathLess(x.parts, y.parts)
         IN  <<m>> \o SortedPaths(S \ {m})

\* root.rglob("*"): every entry below the root, the directories that hold
\* the chosen entries included.
Rglob(t) ==
    t \cup UNION { {[parts |-> SubSeq(e.parts, 1, k), isFile |-> FALSE] :
                        k \in 1..(Len(e.parts) - 1)} : e \in t }

----------------------------------------------------------------------------
\* Program constants

ALLOWED_SUFFIXES ==
    { <<46, 116, 120, 116>>,            \* ".txt"
      <<46, 109, 100>>,                 \* ".md"
      <<46, 100, 111, 99, 120>> }       \* ".docx"

MANAGER_HINTS ==
    { <<24178, 37096>>, <<39046, 23548>>, <<32463, 29702>>, <<20027, 31649>>,
      <<24635, 30417>>, <<37096, 38271>>, <<20070, 35760>>, <<20027, 20219>>,
      <<22788, 38271>>, <<31185, 38271>> }

cadre == <<99, 97, 100, 114, 101>>
employee == <<101, 109, 112, 108, 111, 121, 101, 101>>

\* "未分类"
Unclassified == <<26410, 20998, 31867>>

----------------------------------------------------------------------------
\* Report collection

detect_role(title) ==
    IF \E key \in MANAGER_HINTS : Contains(title, key) THEN cadre ELSE employee

\* The filter of collect_reports: regular file with an allowed suffix.
Collectable(e) == e.isFile /\ Lower(Suffix(FileName(e.parts))) \in ALLOWED_SUFFIXES

MakeReport(e) ==
    [path       |-> e.parts,
     department |-> IF Len(e.parts) > 1 THEN e.parts[1] ELSE Unclassified,
     title      |-> Stem(FileName(e.parts)),
     role       |-> detect_role(Stem(FileName(e.parts)))]

\* Listing order of collect_reports.
Listing(t) == SortedPaths(Rglob(t))

collect_reports(t) ==
    LET all  == Listing(t)
        keep == SelectSeq(all, Collectable)
    IN  [i \in 1..Len(keep) |-> MakeReport(keep[i])]

----------------------------------------------------------------------------
\* JSON values and dicts

\* A JSON value: t is its Python type, v its payload (code points of a str,
\* the elements of a list, the one number of a num).  "absent" stands for a
\* key the dict does not hold.
Absent   == [t |-> "absent", v |-> <<>>]
Null     == [t |-> "null", v |-> <<>>]
JStr(s)  == [t |-> "str", v |-> s]
JList(l) == [t |-> "list", v |-> l]
JNum(n)  == [t |-> "num", v |-> <<n>>]

\* bool(x) of Python
Truthy(x) ==
    CASE x.t = "str"  -> x.v # <<>>
      [] x.t = "list" -> x.v # <<>>
      [] x.t = "num"  -> x.v # <<0>>
      [] OTHER        -> FALSE

\* hash(x) succeeds
Hashable(x) == x.t # "list"

\* The keys of a summary; "extra" stands for any key the model adds.
SummaryKeys ==
    {"name", "department", "role", "position", "title", "entry_date",
     "key_results", "strengths", "improvements", "self_review", "issues",
     "suggestions", "workload", "support_to_departments", "risk_flags",
     "source_path", "error"}
Keys == SummaryKeys \cup {"extra"}

EmptyDict == [k \in Keys |-> Absent]
Has(d, k) == d[k].t # "absent"
\* dict.get(k, default)
Get(d, k, default) == IF Has(d, k) THEN d[k] ELSE default

----------------------------------------------------------------------------
\* Message texts

MsgCallFailed == <<35843, 29992, 27169, 22411, 22833, 36133, 58, 32>>   \* "调用模型失败: "
MsgNoContent  == <<27169, 22411, 26410, 36820, 22238, 20869, 23481>>   \* "模型未返回内容"
MsgParseFailed == <<26080, 27861, 35299, 26512, 27169, 22411, 36820, 22238, 30340, 32, 74, 83, 79, 78, 58, 32>>   \* "无法解析模型返回的 JSON: "
MsgContentIs  == <<59, 32, 99, 111, 110, 116, 101, 110, 116, 61>>   \* "; content="
MsgGenFailed  == <<29983, 25104, 22833, 36133, 65306>>   \* "生成失败："
WorkloadUnknown == <<26410, 25552, 21450, 47, 20272, 35745>>   \* "未提及/估计"
WorkloadFailed  == <<25552, 28860, 22833, 36133, 65288, 20272, 35745, 65289>>   \* "提炼失败（估计）"

\* Texts of exceptions raised by the libraries.
ErrTimeout    == <<82, 101, 113, 117, 101, 115, 116, 32, 116, 105, 109, 101, 100, 32, 111, 117, 116, 46>>   \* "Request timed out."
ErrDecode     == <<69, 120, 112, 101, 99, 116, 105, 110, 103, 32, 118, 97, 108, 117, 101>>   \* "Expecting value"
ErrNotObject  == <<108, 105, 115, 116, 32, 105, 110, 100, 105, 99, 101, 115, 32, 109, 117, 115, 116, 32, 98, 101, 32, 105, 110, 116, 101, 103, 101, 114, 115>>   \* "list indices must be integers"
ErrUnhashable == <<117, 110, 104, 97, 115, 104, 97, 98, 108, 101, 32, 116, 121, 112, 101, 58, 32, 39, 108, 105, 115, 116, 39>>   \* "unhashable type: 'list'"
ErrNoModule   == <<78, 111, 32, 109, 111, 100, 117, 108, 101, 32, 110, 97, 109, 101, 100, 32, 39, 112, 114, 111, 109, 112, 116, 115, 39>>   \* "No module named 'prompts'"
ErrNoSpace    == <<91, 69, 114, 114, 110, 111, 32, 50, 56, 93, 32, 78, 111, 32, 115, 112, 97, 99, 101, 32, 108, 101, 102, 116, 32, 111, 110, 32, 100, 101, 118, 105, 99, 101>>   \* "[Errno 28] No space left on device"

----------------------------------------------------------------------------
\* Prompt override loading

\* What load_prompt_builder meets on disk for one prompt module:
\*   "nopkg"  the package holding the module cannot be imported: find_spec raises
\*   "absent" no module, no file, or no such function: None is returned
\*   "raises" the builder is loaded and raises when called
\*   "ok"     the builder is loaded and returns a prompt
LoaderStates == {"nopkg", "absent", "raises", "ok"}

\* load_prompt_builder raises instead of returning: importlib.util.find_spec
\* imports the parent package of a dotted name and raises ModuleNotFoundError
\* when that package is missing, before any of the fallbacks is reached.
LoaderRaises(st) == st = "nopkg"

\* The loaded builder is called and its result is used.
OverrideUsed(st) == st = "ok"

----------------------------------------------------------------------------
\* Individual summaries

\* Responses of the chat-completion call of summarize_individual.
\*   kind "api_error"  create() raises, msg is the exception text
\*   kind "no_choices" completion.choices is empty
\*   kind "content"    choices[0].message.content is the text `raw`;
\*                     text is "empty", "json" (parses as it stands),
\*                     "fenced" (parses once the code fences are removed) or
\*                     "garbage"; isObj/obj give the parsed value.
Resp(kind, text, isObj, obj, raw) ==
    [kind |-> kind, text |-> text, isObj |-> isObj, obj |-> obj, raw |-> raw]

GoodObj ==
    [name |-> JStr(<<88>>), department |-> JStr(<<68>>), role |-> JStr(cadre),
     workload |-> JStr(<<87>>), key_results |-> JList(<<1>>),
     extra |-> JStr(<<69>>)] @@ EmptyDict

\* name empty, department null, role "boss", workload missing, and a
\* source_path of the model's own.
FalsyObj ==
    [name |-> JStr(<<>>), department |-> Null, role |-> JStr(<<98, 111, 115, 115>>),
     source_path |-> JStr(<<47, 120>>)] @@ EmptyDict

ListRoleObj == [role |-> JList(<<>>), name |-> JStr(<<88>>)] @@ EmptyDict

IndividualResponses ==
    { Resp("api_error", "empty", FALSE, EmptyDict, ErrTimeout),
      Resp("no_choices", "empty", FALSE, EmptyDict, <<>>),
      Resp("content", "empty", FALSE, EmptyDict, <<>>),
      Resp("content", "garbage", FALSE, EmptyDict, <<111, 111, 112, 115>>),
      Resp("content", "json", FALSE, EmptyDict, <<91, 49, 93>>),
      Resp("content", "json", TRUE, GoodObj, <<123, 71, 125>>),
      Resp("content", "fenced", TRUE, GoodObj, <<96, 96, 96, 123, 71, 125, 96, 96, 96>>),
      Resp("content", "json", TRUE, FalsyObj, <<123, 70, 125>>),
      Resp("content", "json", TRUE, ListRoleObj, <<123, 76, 125>>) }

\* Result of a call: a returned value or a raised exception with its text.
Returned(data, requested) ==
    [ok |-> TRUE, data |-> data, error |-> <<>>, requested |-> requested]
Raised(error, requested) ==
    [ok |-> FALSE, data |-> EmptyDict, error |-> error, requested |-> requested]

\* The retry on the cleaned content left out.
NeverParsesCleaned(resp) == FALSE

\* json.loads(content) succeeds, directly or after the fences are removed.
ParsesDirectly(resp) == resp.text = "json"
ParsesCleaned(resp)  == resp.text = "fenced"

\* The role the repair step keeps: the model's when it is a valid one.
RepairRole(data, report) ==
    IF Has(data, "role") /\ data["role"] \in {JStr(cadre), JStr(employee)}
    THEN data["role"] ELSE JStr(report.role)

\* The model's value kept whenever the key is present, falsy or not.
RepairFieldIfMissing(data, k, fallback) ==
    IF Has(data, k) THEN data[k] ELSE fallback

RepairField(data, k, fallback) ==
    IF Has(data, k) /\ Truthy(data[k]) THEN data[k] ELSE fallback

\* Lines 222-231 of summarize_individual, for a parsed JSON object.
Repair(data, report) ==
    [data EXCEPT !["source_path"] = JStr(PathStr(report.path)),
                 !["name"]        = RepairField(data, "name", JStr(report.title)),
                 !["department"]  = RepairField(data, "department", JStr(report.department)),
                 !["role"]        = RepairRole(data, report),
                 !["workload"]    = RepairField(data, "workload", JStr(WorkloadUnknown))]

\* summarize_individual(client, model, report, ...), given what the loader
\* meets for prompts.individual.prompt and how the model answers.
summarize_individual(report, loader, resp) ==
    IF LoaderRaises(loader) THEN Raised(ErrNoModule, FALSE)
    ELSE IF resp.kind = "api_error" THEN Raised(MsgCallFailed \o resp.raw, TRUE)
    ELSE IF resp.kind = "no_choices" \/ resp.text = "empty" THEN Raised(MsgNoContent, TRUE)
    ELSE IF ~ParsesDirectly(resp) /\ ~ParsesCleaned(resp)
         THEN Raised(MsgParseFailed \o ErrDecode \o MsgContentIs \o resp.raw, TRUE)
    ELSE IF ~resp.isObj THEN Raised(ErrNotObject, TRUE)
    ELSE IF Has(resp.obj, "role") /\ ~Hashable(resp.obj["role"])
         THEN Raised(ErrUnhashable, TRUE)
    ELSE Returned(Repair(resp.obj, report), TRUE)

make_failure_record(report, error) ==
    [k \in Keys |->
        CASE k = "name"        -> JStr(report.title)
          [] k = "department"  -> JStr(report.department)
          [] k = "role"        -> JStr(report.role)
          [] k \in {"position", "title", "entry_date"} -> JStr(<<>>)
          [] k = "workload"    -> JStr(WorkloadFailed)
          [] k = "source_path" -> JStr(PathStr(report.path))
          [] k = "error"       -> JStr(error)
          [] k = "extra"       -> Absent
          [] OTHER             -> JList(<<>>)]

----------------------------------------------------------------------------
\* Aggregate prompt and review

CompactKeys == SummaryKeys \ {"source_path"}
ListKeys ==
    {"key_results", "strengths", "improvements", "self_review", "issues",
     "suggestions", "support_to_departments", "risk_flags"}

\* The person handed on as it is.
Uncompacted(person) == person

\* The record build_aggregate_prompt keeps of one person.
Compact(person) ==
    [k \in CompactKeys |->
        IF k \in ListKeys THEN Get(person, k, JList(<<>>)) ELSE Get(person, k, Null)]

CompactAll(ppl) == [i \in 1..Len(ppl) |-> Compact(ppl[i])]

\* A prompt is the sequence of its parts, in the order of the text.
Seg(seg, ppl, text) == [seg |-> seg, people |-> ppl, text |-> text]

NoneText == <<78, 111, 110, 101>>   \* "None"

\* extra = extra_prompt.strip() if extra_prompt else ""
ExtraOf(plan) == IF plan.given /\ plan.text # <<>> THEN Strip(plan.text) ELSE <<>>

\* The f-string returned by build_aggregate_prompt (lines 268-273).
DefaultPrompt(compact, plan) ==
    << Seg("industry", <<>>, <<>>),
       Seg("people", compact, <<>>),
       Seg("addendum", <<>>, IF ExtraOf(plan) # <<>> THEN ExtraOf(plan) ELSE NoneText),
       Seg("instruction", <<>>, <<>>) >>

\* prompts/aggregate/prompt.py build_prompt(ctx): ctx holds the people and
\* the industry context only.
OverridePrompt(compact) ==
    << Seg("industry", <<>>, <<>>),
       Seg("people", compact, <<>>),
       Seg("instruction", <<>>, <<>>) >>

\* build_aggregate_prompt(people, extra_prompt), called once the loader has
\* returned (the loader raising is handled by the caller).
build_aggregate_prompt(ppl, plan, loader) ==
    IF OverrideUsed(loader) THEN OverridePrompt(CompactAll(ppl))
    ELSE DefaultPrompt(CompactAll(ppl), plan)

\* Responses of the chat-completion call of aggregate_review.
AggregateResponses ==
    { Resp("api_error", "empty", FALSE, EmptyDict, ErrTimeout),
      Resp("no_choices", "empty", FALSE, EmptyDict, <<>>),
      Resp("content", "empty", FALSE, EmptyDict, <<>>),
      Resp("content", "garbage", FALSE, EmptyDict, <<32, 35, 82, 10>>) }

AggOutcome(failed, error, markdown, requested, prompt) ==
    [failed |-> failed, error |-> error, markdown |-> markdown,
     requested |-> requested, prompt |-> prompt]

\* aggregate_review(client, model, people, temperature, extra_prompt, ...)
aggregate_review(ppl, plan, loader, resp) ==
    IF LoaderRaises(loader) THEN AggOutcome(TRUE, ErrNoModule, <<>>, FALSE, <<>>)
    ELSE LET prompt == build_aggregate_prompt(ppl, plan, loader)
         IN  IF resp.kind = "api_error"
                 THEN AggOutcome(TRUE, MsgCallFailed \o resp.raw, <<>>, TRUE, prompt)
             ELSE IF resp.kind = "no_choices" \/ resp.text = "empty"
                 THEN AggOutcome(TRUE, MsgNoContent, <<>>, TRUE, prompt)
             ELSE AggOutcome(FALSE, <<>>, Strip(resp.raw), TRUE, prompt)

----------------------------------------------------------------------------
\* The run: main()

\* Entries the input root may hold (paths relative to the root).
Universe ==
    { [parts |-> << <<97>>, <<120, 46, 116, 120, 116>> >>, isFile |-> TRUE],        \* a/x.txt
      [parts |-> << <<97, 45, 98>>, <<121, 46, 109, 100>> >>, isFile |-> TRUE],     \* a-b/y.md
      [parts |-> << <<32463, 29702, 122, 46, 84, 88, 84>> >>, isFile |-> TRUE],     \* <manager>z.TXT
      [parts |-> << <<97>>, <<110, 46, 112, 100, 102>> >>, isFile |-> TRUE],        \* a/n.pdf
      [parts |-> << <<100, 46, 109, 100>> >>, isFile |-> FALSE],                    \* d.md, a directory
      [parts |-> << <<46, 116, 120, 116>> >>, isFile |-> TRUE] }                    \* .txt

Trees == {S \in SUBSET Universe : Cardinality(S) <= MaxFiles}

\* Values of --plan-prompt: not given, "P", " P ".
PlanInputs ==
    { [given |-> FALSE, text |-> <<>>],
      [given |-> TRUE, text |-> <<80>>],
      [given |-> TRUE, text |-> <<32, 80, 32>>] }

Event(ev, i) == [ev |-> ev, i |-> i]

\* The parts of the state a run of main() from the command line leaves alone.
PromptsIdle == call = [kind |-> "none"] /\ outcome = [done |-> FALSE]
ServerIdle == fs = {} /\ reply = [status |-> 0]
RunsIdle == environ = [set |-> FALSE, v |-> ""] /\ runs = <<>>
StreamIdle ==
    /\ queue = <<>> /\ worker = [pc |-> "idle"] /\ emitted = <<>>
    /\ stdout = [now |-> "orig"] /\ other = [pc |-> "idle"]
DirsIdle == clock = 0 /\ jobs = <<>> /\ disk = {}

Init ==
    /\ tree \in Trees
    /\ hasKey \in BOOLEAN
    /\ planPrompt \in PlanInputs
    /\ pc = "start"
    /\ reports = <<>>
    /\ idx = 1
    /\ people = <<>>
    /\ perReportDir = FALSE
    /\ artifacts = {}
    /\ batchFile = [written |-> FALSE, data |-> <<>>]
    /\ orgFile = [written |-> FALSE, body |-> <<>>]
    /\ aggResult = AggOutcome(FALSE, <<>>, <<>>, FALSE, <<>>)
    /\ aggPrompt = <<>>
    /\ log = <<>>
    /\ exit = "running"
    /\ PromptsIdle /\ ServerIdle /\ RunsIdle /\ StreamIdle /\ DirsIdle

\* create_client() raises SystemExit when the key is missing.
StartNoKey ==
    /\ pc = "start"
    /\ ~hasKey
    /\ pc' = "done"
    /\ exit' = "SystemExit"
    /\ UNCHANGED <<tree, hasKey, planPrompt, reports, idx, people, perReportDir,
                   artifacts, batchFile, orgFile, aggResult, aggPrompt, log>>
    /\ UNCHANGED <<promptVars, serverVars, runVars, streamVars, dirVars>>

\* The empty-input exit left out.
EmptyInputUnchecked(found) == FALSE

\* `if not reports`
EmptyInput(found) == found = <<>>

\* main() lines 370-384: client, collection, the empty-input exit, per_report.
Start ==
    /\ pc = "start"
    /\ hasKey
    /\ LET found == collect_reports(tree)
       IN  /\ reports' = found
           /\ IF EmptyInput(found)
              THEN /\ pc' = "done"
                   /\ exit' = "SystemExit"
                   /\ UNCHANGED perReportDir
              ELSE /\ pc' = "loop"
                   /\ exit' = "running"
                   /\ perReportDir' = TRUE
    /\ UNCHANGED <<tree, hasKey, planPrompt, idx, people, artifacts, batchFile,
                   orgFile, aggResult, aggPrompt, log>>
    /\ UNCHANGED <<promptVars, serverVars, runVars, streamVars, dirVars>>

\* One pass of the loop body of main() (lines 387-404) over `ppl`.
\* tryWriteFails: the write of the summary in the try block raises;
\* handlerWriteFails: the write of the failure record in the handler raises.
LoopIteration(report, ppl, loader, resp, tryWriteFails, handlerWriteFails) ==
    LET r        == summarize_individual(report, loader, resp)
        afterTry == IF r.ok THEN Append(ppl, r.data) ELSE ppl
        fail     == make_failure_record(report, IF r.ok THEN ErrNoSpace ELSE r.error)
    IN  IF r.ok /\ ~tryWriteFails
        THEN [people |-> afterTry, written |-> <<r.data>>,
              requested |-> r.requested, aborted |-> FALSE]
        ELSE [people |-> Append(afterTry, fail),
              written |-> IF handlerWriteFails THEN <<>> ELSE <<fail>>,
              requested |-> r.requested, aborted |-> handlerWriteFails]

WriteArtifact(files, dest, data) ==
    {a \in files : a.dest # dest} \cup {[dest |-> dest, data |-> data]}

SummarizeStep ==
    /\ pc = "loop"
    /\ idx <= Len(reports)
    /\ \E loader \in LoaderStates, resp \in IndividualResponses,
          tryWriteFails \in BOOLEAN, handlerWriteFails \in BOOLEAN :
          LET report == reports[idx]
              it == LoopIteration(report, people, loader, resp,
                                  tryWriteFails, handlerWriteFails)
          IN  /\ people' = it.people
              /\ artifacts' = IF it.written = <<>> THEN artifacts
                              ELSE WriteArtifact(artifacts, WithSuffixJson(report.path),
                                                 it.written[1])
              /\ log' = log
                          \o (IF it.requested THEN <<Event("request", idx)>> ELSE <<>>)
                          \o (IF it.written = <<>> THEN <<>> ELSE <<Event("artifact", idx)>>)
              /\ IF it.aborted
                 THEN /\ pc' = "done"
                      /\ exit' = "exception"
                      /\ UNCHANGED idx
                 ELSE /\ idx' = idx + 1
                      /\ pc' = IF idx = Len(reports) THEN "persist" ELSE "loop"
                      /\ UNCHANGED exit
    /\ UNCHANGED <<tree, hasKey, planPrompt, reports, perReportDir, batchFile,
                   orgFile, aggResult, aggPrompt>>
    /\ UNCHANGED <<promptVars, serverVars, runVars, streamVars, dirVars>>

\* main() lines 406-409: individual_summaries.json
PersistBatch ==
    /\ pc = "persist"
    /\ batchFile' = [written |-> TRUE, data |-> people]
    /\ log' = Append(log, Event("batch", 0))
    /\ pc' = "aggregate"
    /\ UNCHANGED <<tree, hasKey, planPrompt, reports, idx, people, perReportDir,
                   artifacts, orgFile, aggResult, aggPrompt, exit>>
    /\ UNCHANGED <<promptVars, serverVars, runVars, streamVars, dirVars>>

\* main() lines 411-425: the aggregate call and its handler.
Aggregate ==
    /\ pc = "aggregate"
    /\ \E loader \in LoaderStates, resp \in AggregateResponses :
          LET r == aggregate_review(people, planPrompt, loader, resp)
          IN  /\ aggResult' = [r EXCEPT !.markdown =
                                   IF r.failed THEN MsgGenFailed \o r.error ELSE r.markdown]
              /\ aggPrompt' = r.prompt
              /\ log' = IF r.requested THEN Append(log, Event("agg_request", 0)) ELSE log
    /\ pc' = "write_org"
    /\ UNCHANGED <<tree, hasKey, planPrompt, reports, idx, people, perReportDir,
                   artifacts, batchFile, orgFile, exit>>
    /\ UNCHANGED <<promptVars, serverVars, runVars, streamVars, dirVars>>

\* main() lines 427-437: organization_review.md and the exit status.
WriteOrg ==
    /\ pc = "write_org"
    /\ orgFile' = [written |-> TRUE, body |-> aggResult.markdown]
    /\ log' = Append(log, Event("org", 0))
    /\ exit' = IF aggResult.failed THEN "SystemExit" ELSE "ok"
    /\ pc' = "done"
    /\ UNCHANGED <<tree, hasKey, planPrompt, reports, idx, people, perReportDir,
                   artifacts, batchFile, aggResult, aggPrompt>>
    /\ UNCHANGED <<promptVars, serverVars, runVars, streamVars, dirVars>>

Next ==
    \/ StartNoKey
    \/ Start
    \/ SummarizeStep
    \/ PersistBatch
    \/ Aggregate
    \/ WriteOrg

Spec == Init /\ [][Next]_vars

----------------------------------------------------------------------------
\* Properties

\* The run has reached the aggregate phase.
AggregateReached == pc \in {"aggregate", "write_org"} \/ orgFile.written

SourcePathOf(report) == JStr(PathStr(report.path))

IsFailureRecord(p) == Has(p, "error")

\* C1: in every run that reaches the aggregate phase, the batch handed to
\* aggregate_review has exactly one entry per collected report.
C1_BatchComplete ==
    AggregateReached => Len(people) = Len(reports)

\* C2: a report whose processing fails never aborts the run, and its
\* per-report artifact holds a FailureRecord with a non-empty error.
C2_FailuresNeverAbort ==
    /\ exit # "exception"
    /\ \A i \in 1..Len(reports) :
          (\E j \in 1..Len(people) :
              IsFailureRecord(people[j]) /\ people[j]["source_path"] = SourcePathOf(reports[i]))
          => \E a \in artifacts :
                /\ a.dest = WithSuffixJson(reports[i].path)
                /\ IsFailureRecord(a.data)
                /\ a.data["error"].v # <<>>

\* C3: in every run that reaches the aggregate phase, the i-th entry of the
\* batch, and of individual_summaries.json, belongs to the i-th report.
C3_BatchOrder ==
    AggregateReached =>
        /\ batchFile.written => batchFile.data = people
        /\ \A i \in 1..Len(people) :
              /\ i <= Len(reports)
              /\ people[i]["source_path"] = SourcePathOf(reports[i])

\* The files collect_reports has to return: regular files whose lower-cased
\* suffix is .txt, .md or .docx.
ExpectedPaths ==
    {e.parts : e \in {f \in tree : f.isFile /\ Lower(Suffix(FileName(f.parts))) \in
                                       { <<46, 116, 120, 116>>, <<46, 109, 100>>,
                                         <<46, 100, 111, 99, 120>> }}}

Collected == pc # "start" /\ hasKey

ExactlyOnce ==
    /\ {reports[i].path : i \in 1..Len(reports)} = ExpectedPaths
    /\ Len(reports) = Cardinality(ExpectedPaths)

\* C4 as stated: every allowed file exactly once and no other, in
\* lexicographic order of the full paths compared as strings.
C4_StringOrder ==
    Collected =>
        /\ ExactlyOnce
        /\ \A i, j \in 1..Len(reports) :
              i < j => StrPathLess(reports[i].path, reports[j].path)

\* p comes before q when the paths are compared component by component: at
\* the first component where they differ p's is the smaller string, or p is
\* a proper prefix of q.
BeforeByComponents(p, q) ==
    LET same == {n \in 0..Len(p) : n <= Len(q) /\ \A k \in 1..n : p[k] = q[k]}
        n    == CHOOSE m \in same : \A o \in same : o <= m
    IN  IF n = Len(p) THEN n < Len(q)
        ELSE n < Len(q) /\ StrLess(p[n + 1], q[n + 1])

\* C4 as amended: every allowed file exactly once and no other, in the
\* order of the paths compared component by component.
C4_ComponentOrder ==
    Collected =>
        /\ ExactlyOnce
        /\ \A i, j \in 1..Len(reports) :
              i < j => BeforeByComponents(reports[i].path, reports[j].path)

\* Two reports were collected whose string order differs from their order
\* in the result.
C4_Witness ==
    /\ Collected
    /\ \E i, j \in 1..Len(reports) :
          i < j /\ StrPathLess(reports[j].path, reports[i].path)

\* C5: when the aggregate call fails, organization_review.md holds the
\* failure message, individual_summaries.json was written before with all
\* N entries, and only then the run ends with a non-zero status.
C5_AggregateFailure ==
    /\ (pc = "write_org" /\ aggResult.failed) =>
          /\ exit = "running"
          /\ batchFile.written
          /\ Len(batchFile.data) = Len(reports)
    /\ (pc = "done" /\ aggResult.failed) =>
          /\ exit = "SystemExit"
          /\ orgFile.written
          /\ orgFile.body = MsgGenFailed \o aggResult.error
          /\ aggResult.error # <<>>
          /\ batchFile.written
          /\ Len(batchFile.data) = Len(reports)
          /\ \E i, j \in 1..Len(log) :
                i < j /\ log[i].ev = "batch" /\ log[j].ev = "org" /\ j = Len(log)

\* C6: when collection yields no report, main() ends with a non-zero
\* status, no model request issued and nothing written.
C6_EmptyInputFailsFast ==
    (pc # "start" /\ collect_reports(tree) = <<>>) =>
        /\ pc = "done"
        /\ exit = "SystemExit"
        /\ log = <<>>
        /\ ~perReportDir
        /\ artifacts = {}
        /\ ~batchFile.written
        /\ ~orgFile.written

\* A run over a non-empty input root that holds no report has ended.
C6_Witness ==
    /\ pc = "done"
    /\ hasKey
    /\ tree # {}
    /\ reports = <<>>
    /\ exit = "SystemExit"

NonEmptyValue(x) == x.t \notin {"absent", "null"} /\ x.v # <<>>

WellFormed(p) ==
    /\ \A k \in {"name", "department", "role", "workload"} : NonEmptyValue(p[k])
    /\ p["role"] \in {JStr(cadre), JStr(employee)}

\* C7: every summary and every FailureRecord, in the batch and in the
\* per-report artifacts, has name, department, role and workload present
\* and non-empty, with role one of cadre and employee.
C7_RequiredFields ==
    /\ \A i \in 1..Len(people) : WellFormed(people[i])
    /\ \A a \in artifacts : WellFormed(a.data)

\* The batch holds a summary whose name, department, role and workload were
\* all repaired, and a FailureRecord.
C7_Witness ==
    /\ \E i \in 1..Len(people) :
          /\ ~IsFailureRecord(people[i])
          /\ people[i]["workload"] = JStr(WorkloadUnknown)
          /\ people[i]["name"] = JStr(reports[1].title)
    /\ \E i \in 1..Len(people) : IsFailureRecord(people[i])

Count(ev, i) == Cardinality({k \in 1..Len(log) : log[k] = Event(ev, i)})

\* C8: exactly one model request per report handled, at most one for the
\* aggregate phase, and N+1 in all once the aggregate phase is over.
C8_NoRetry ==
    /\ \A i \in 1..Len(reports) :
          /\ Count("request", i) <= 1
          /\ i < idx => Count("request", i) = 1
    /\ Count("agg_request", 0) <= 1
    /\ (pc = "write_org" \/ orgFile.written) =>
          Cardinality({k \in 1..Len(log) : log[k].ev \in {"request", "agg_request"}})
              = Len(reports) + 1

\* request(1), artifact(1), ..., request(N), artifact(N), batch, aggregate
\* request, organization_review.md
ExpectedEvents(n) ==
    [k \in 1..(2 * n + 3) |->
        IF k <= 2 * n
        THEN Event(IF k % 2 = 1 THEN "request" ELSE "artifact", (k + 1) \div 2)
        ELSE Event(CASE k = 2 * n + 1 -> "batch"
                     [] k = 2 * n + 2 -> "agg_request"
                     [] OTHER         -> "org", 0)]

IsPrefix(s, t) == Len(s) <= Len(t) /\ \A k \in 1..Len(s) : s[k] = t[k]

\* C9: the events of a run occur strictly in the linear phase order, and a
\* run that writes organization_review.md has gone through all of them.
C9_LinearOrder ==
    /\ IsPrefix(log, ExpectedEvents(Len(reports)))
    /\ orgFile.written => log = ExpectedEvents(Len(reports))

\* C10: the user prompt of every aggregate request holds the industry
\* context, then the compacted summaries, then the plan addendum: the
\* --plan-prompt text when given, the none sentinel otherwise.
C10_AggregatePromptParts ==
    aggResult.requested =>
        \E i, j, k \in 1..Len(aggPrompt) :
            /\ i < j /\ j < k
            /\ aggPrompt[i].seg = "industry"
            /\ aggPrompt[j].seg = "people"
            /\ aggPrompt[j].people = CompactAll(people)
            /\ aggPrompt[k].seg = "addendum"
            /\ aggPrompt[k].text = IF planPrompt.given THEN planPrompt.text ELSE NoneText

\* The sixteen keys of a record of the aggregate prompt, and those whose
\* default is the empty list.
PromptKeys ==
    {"name", "department", "role", "position", "title", "entry_date",
     "key_results", "strengths", "improvements", "self_review", "issues",
     "suggestions", "workload", "support_to_departments", "risk_flags", "error"}
PromptListKeys ==
    {"key_results", "strengths", "improvements", "self_review", "issues",
     "suggestions", "support_to_departments", "risk_flags"}

\* C19: in every aggregate request the records of the prompt are as many as
\* the entries of the batch and in their order, each has exactly the fixed
\* sixteen keys, so that no other key of a summary reaches the prompt, and
\* each key holds the entry's value, or its default (null, or the empty
\* list) when the entry lacks the key.
C19_Compaction ==
    aggResult.requested =>
        \A j \in 1..Len(aggPrompt) :
            aggPrompt[j].seg = "people" =>
                /\ Len(aggPrompt[j].people) = Len(people)
                /\ \A i \in 1..Len(people) :
                      /\ DOMAIN aggPrompt[j].people[i] = PromptKeys
                      /\ \A k \in PromptKeys :
                            aggPrompt[j].people[i][k] =
                                IF people[i][k].t # "absent" THEN people[i][k]
                                ELSE IF k \in PromptListKeys THEN JList(<<>>)
                                ELSE Null

\* An aggregate request was made for a batch that holds a summary with a key
\* outside the sixteen and an entry that lacks a listed key.
C19_Witness ==
    /\ aggResult.requested
    /\ \E j \in 1..Len(aggPrompt) : aggPrompt[j].seg = "people"
    /\ \E i \in 1..Len(people) : people[i]["extra"].t # "absent"
    /\ \E i \in 1..Len(people) : people[i]["key_results"].t = "absent"

----------------------------------------------------------------------------
\* One model call, with the prompt module and each of its two builder
\* functions in a state of their own

\* What importlib finds for the prompt module of a call:
\*   "nopkg"     a parent package of the dotted name cannot be imported
\*   "nomodule"  find_spec returns None and no file is at the relative path
\*   "execfails" exec_module raises an Exception
\*   "loaded"    the module is executed
ModuleStates == {"nopkg", "nomodule", "execfails", "loaded"}

\* What getattr(module, func_name, None) gives for one builder:
\*   "missing" no callable of that name, "raises" it raises when called,
\*   "ok" it returns a prompt
FuncStates == {"missing", "raises", "ok"}

\* load_prompt_builder(module_name, func_name): "raise" when find_spec
\* raises, "none" for the None result, "builder" for a callable.
load_prompt_builder(mod, fn) ==
    IF mod = "nopkg" THEN "raise"
    ELSE IF mod \in {"nomodule", "execfails"} THEN "none"
    ELSE IF fn = "missing" THEN "none"
    ELSE "builder"

\* The prompt a call site ends up with: the builder's result when the
\* builder was returned and did not raise, else the built-in text.
PromptUsed(mod, fn) ==
    IF load_prompt_builder(mod, fn) = "builder" /\ fn = "ok" THEN "override" ELSE "default"

\* The state of LoaderStates that a module state and a builder state make.
LoaderOf(mod, fn) ==
    CASE load_prompt_builder(mod, fn) = "raise" -> "nopkg"
      [] load_prompt_builder(mod, fn) = "none"  -> "absent"
      [] OTHER -> fn

\* Content that parses neither as it stands nor with the fences removed,
\* although a JSON object is inside it: fenced JSON followed by prose.
WrappedResponse ==
    Resp("content", "wrapped", TRUE, GoodObj,
         <<96, 96, 96, 123, 71, 125, 96, 96, 96, 32, 111, 107>>)

\* name a number, department and role missing, workload an empty list.
NumObj == [name |-> JNum(7), workload |-> JList(<<>>)] @@ EmptyDict

\* role a valid one, every other key missing.
RoleOnlyObj == [role |-> JStr(employee)] @@ EmptyDict

CallResponses ==
    IndividualResponses \cup
        { WrappedResponse,
          Resp("content", "json", TRUE, NumObj, <<123, 78, 125>>),
          Resp("content", "json", TRUE, RoleOnlyObj, <<123, 82, 125>>),
          Resp("content", "json", TRUE, EmptyDict, <<123, 125>>) }

\* The reports of the calls: one below a department, one at the root whose
\* title holds a keyword of MANAGER_HINTS.
CallReports ==
    { MakeReport([parts |-> << <<97>>, <<120, 46, 116, 120, 116>> >>, isFile |-> TRUE]),
      MakeReport([parts |-> << <<32463, 29702, 122, 46, 84, 88, 84>> >>, isFile |-> TRUE]) }

\* The batch an aggregate call is given: a summary and a failure record.
CallPeople(report) ==
    << Repair(GoodObj, report), make_failure_record(report, ErrTimeout) >>

CallPlan == [given |-> TRUE, text |-> <<80>>]

CallsOf(k, responses) ==
    { [kind |-> k, report |-> r, mod |-> m, sysFn |-> sf, usrFn |-> uf, resp |-> rs] :
        r \in CallReports, m \in ModuleStates, sf \in FuncStates, uf \in FuncStates,
        rs \in responses }

Calls == CallsOf("individual", CallResponses) \cup CallsOf("aggregate", AggregateResponses)

MainIdle ==
    /\ tree = {} /\ hasKey = FALSE /\ planPrompt = [given |-> FALSE, text |-> <<>>]
    /\ pc = "done" /\ reports = <<>> /\ idx = 1 /\ people = <<>>
    /\ perReportDir = FALSE /\ artifacts = {}
    /\ batchFile = [written |-> FALSE, data |-> <<>>]
    /\ orgFile = [written |-> FALSE, body |-> <<>>]
    /\ aggResult = AggOutcome(FALSE, <<>>, <<>>, FALSE, <<>>)
    /\ aggPrompt = <<>> /\ log = <<>> /\ exit = "running"

InitCalls ==
    /\ call \in Calls
    /\ outcome = [done |-> FALSE]
    /\ MainIdle /\ ServerIdle /\ RunsIdle /\ StreamIdle /\ DirsIdle

\* summarize_individual lines 176-231: both builders are loaded, the
\* request is sent with the prompts they left, the answer is classified.
CallIndividual ==
    /\ call.kind = "individual"
    /\ ~outcome.done
    /\ LET r == summarize_individual(call.report, LoaderOf(call.mod, call.usrFn), call.resp)
       IN  outcome' =
             [done |-> TRUE, requested |-> r.requested, failed |-> ~r.ok,
              error |-> r.error, data |-> r.data,
              sys  |-> IF r.requested THEN PromptUsed(call.mod, call.sysFn) ELSE "none",
              user |-> IF r.requested THEN PromptUsed(call.mod, call.usrFn) ELSE "none"]
    /\ UNCHANGED <<call, mainVars, serverVars, runVars, streamVars, dirVars>>

\* aggregate_review lines 284-307 with build_aggregate_prompt lines 262-273.
CallAggregate ==
    /\ call.kind = "aggregate"
    /\ ~outcome.done
    /\ LET ppl == CallPeople(call.report)
           r   == aggregate_review(ppl, CallPlan, LoaderOf(call.mod, call.usrFn), call.resp)
       IN  outcome' =
             [done |-> TRUE, requested |-> r.requested, failed |-> r.failed,
              error |-> r.error, data |-> EmptyDict,
              sys  |-> IF r.requested THEN PromptUsed(call.mod, call.sysFn) ELSE "none",
              user |-> IF ~r.requested THEN "none"
                       ELSE IF r.prompt = OverridePrompt(CompactAll(ppl)) THEN "override"
                       ELSE "default"]
    /\ UNCHANGED <<call, mainVars, serverVars, runVars, streamVars, dirVars>>

NextCalls == CallIndividual \/ CallAggregate

SpecCalls == InitCalls /\ [][NextCalls]_vars

\* The override of a call site ran without error.
OverrideRan(mod, fn) == mod = "loaded" /\ fn = "ok"

\* C11: at each of the four override points a failing override (module
\* missing, module failing to load, builder raising) leaves the default
\* prompt in place and the request is still issued, a working override
\* supplies the prompt that is sent, and no override failure makes the call
\* fail.
C11_OverrideBestEffort ==
    outcome.done =>
        /\ outcome.requested
        /\ outcome.sys  = (IF OverrideRan(call.mod, call.sysFn) THEN "override" ELSE "default")
        /\ outcome.user = (IF OverrideRan(call.mod, call.usrFn) THEN "override" ELSE "default")
        /\ outcome.error # ErrNoModule

\* The call is a summarize_individual call whose request was answered.
Answered ==
    /\ outcome.done /\ call.kind = "individual"
    /\ outcome.requested /\ call.resp.kind # "api_error"

NoContent == call.resp.kind = "no_choices" \/ call.resp.text = "empty"

\* The content is JSON as it stands or once cleaned of its fences.
ContentParses == ~NoContent /\ call.resp.text \in {"json", "fenced"}

EndsWith(s, t) == Len(s) >= Len(t) /\ SubSeq(s, Len(s) - Len(t) + 1, Len(s)) = t

\* Part of C12 that does not depend on what the parsed value is: the
\* empty-response error, and the parse error that carries the raw content.
ClassifiedErrors ==
    /\ NoContent => outcome.failed /\ outcome.error = MsgNoContent
    /\ (~NoContent /\ ~ContentParses) =>
          /\ outcome.failed
          /\ call.resp.raw # <<>>
          /\ EndsWith(outcome.error, MsgContentIs \o call.resp.raw)

RepairableObject ==
    call.resp.isObj /\ call.resp.obj["role"].t # "list"

RepairedKeys == {"name", "department", "role", "workload", "source_path"}

\* The value the rule gives key k: the model's when present and truthy,
\* else the fallback.
ModelOr(obj, k, fallback) == IF Has(obj, k) /\ Truthy(obj[k]) THEN obj[k] ELSE fallback

\* C18: for any parsed JSON object from the model a summary is returned in
\* which name, department and workload are the model's value when present
\* and truthy and else the title, the department and the sentinel, role is
\* the model's when it is exactly "cadre" or "employee" and else the detected
\* role, source_path is the report's path, and every other key is as the
\* model gave it.
C18_RepairRule ==
    (Answered /\ ContentParses /\ call.resp.isObj) =>
        LET obj == call.resp.obj
            d   == outcome.data
            r   == call.report
        IN  /\ ~outcome.failed
            /\ d["name"] = ModelOr(obj, "name", JStr(r.title))
            /\ d["department"] = ModelOr(obj, "department", JStr(r.department))
            /\ d["workload"] = ModelOr(obj, "workload", JStr(WorkloadUnknown))
            /\ d["role"] = (IF obj["role"] \in {JStr(cadre), JStr(employee)}
                            THEN obj["role"] ELSE JStr(r.role))
            /\ d["source_path"] = JStr(PathStr(r.path))
            /\ \A k \in Keys \ RepairedKeys : d[k] = obj[k]

----------------------------------------------------------------------------
\* collect_reports over file names of every shape

\* Longest title of a generated file name.
MaxTitleLen == 3

\* Code points of the titles: two characters each of the keywords "经理"
\* and "主任", a letter, and the dot.
TitleAlphabet == {32463, 29702, 20027, 20219, 122, 46}

Titles == UNION {[1..n -> TitleAlphabet] : n \in 0..MaxTitleLen}

\* The input root holds one file, <title>.md or <title>.TXT.
InitCollect ==
    /\ \E t \in Titles, ext \in {<<46, 109, 100>>, <<46, 84, 88, 84>>} :
          tree = {[parts |-> <<t \o ext>>, isFile |-> TRUE]}
    /\ hasKey = TRUE
    /\ planPrompt = [given |-> FALSE, text |-> <<>>]
    /\ pc = "start"
    /\ reports = <<>>
    /\ idx = 1
    /\ people = <<>>
    /\ perReportDir = FALSE
    /\ artifacts = {}
    /\ batchFile = [written |-> FALSE, data |-> <<>>]
    /\ orgFile = [written |-> FALSE, body |-> <<>>]
    /\ aggResult = AggOutcome(FALSE, <<>>, <<>>, FALSE, <<>>)
    /\ aggPrompt = <<>>
    /\ log = <<>>
    /\ exit = "running"
    /\ PromptsIdle /\ ServerIdle /\ RunsIdle /\ StreamIdle /\ DirsIdle

SpecCollect == InitCollect /\ [][Start]_vars

\* name is title followed by an extension: a dot and at least one more
\* character, none of them a dot.
IsNameWithoutExtension(title, name) ==
    /\ Len(title) >= 1
    /\ Len(name) >= Len(title) + 2
    /\ SubSeq(name, 1, Len(title)) = title
    /\ name[Len(title) + 1] = 46
    /\ \A j \in (Len(title) + 2)..Len(name) : name[j] # 46

\* Some keyword of MANAGER_HINTS lies in the title at some position.
HoldsKeyword(title) ==
    \E key \in MANAGER_HINTS, at \in 1..Len(title) :
        /\ at + Len(key) - 1 <= Len(title)
        /\ SubSeq(title, at, at + Len(key) - 1) = key

\* C13: the role of every collected report is cadre when a keyword of
\* MANAGER_HINTS is a contiguous substring of its title and employee
\* otherwise, the title being the file name without its extension.
C13_RoleFromTitle ==
    Collected =>
        \A i \in 1..Len(reports) :
            /\ IsNameWithoutExtension(reports[i].title, FileName(reports[i].path))
            /\ reports[i].role = (IF HoldsKeyword(reports[i].title) THEN cadre ELSE employee)
            /\ reports[i].role = detect_role(reports[i].title)

\* A keyword in the middle of a title made the report a cadre's, and a
\* title holding the two characters of a keyword apart, or in the other
\* order, left it an employee's.
C13_Witness ==
    /\ Collected
    /\ Len(reports) = 1
    /\ \/ reports[1].title = <<122, 32463, 29702>> /\ reports[1].role = cadre
       \/ reports[1].title = <<32463, 46, 29702>> /\ reports[1].role = employee

----------------------------------------------------------------------------
\* The job server: safe_join and the routes /delete, /mkdir, /download
\*
\* A file-system path is the sequence of its components from "/"; an entry
\* of the file system is [path, kind] with kind "dir", "file" or "link".

BASE_DIR    == <<"app">>
UPLOAD_ROOT == <<"app", "up_load">>
RUN_ROOT    == <<"app", "web_runs">>

\* Where the symbolic links of the model point; the targets hold no link.
LinkTarget(path) ==
    IF path = <<"app", "up_load", "out">> THEN <<"etc">>
    ELSE <<"app", "up_load", "a">>

\* The server's disk once the module is imported and some files exist:
\* an uploaded file, a finished run, a file and a directory outside both
\* roots, a link out of the upload root and a link within it.
InitialFs ==
    { [path |-> <<"app">>, kind |-> "dir"],
      [path |-> <<"app", "secret">>, kind |-> "file"],
      [path |-> <<"etc">>, kind |-> "dir"],
      [path |-> <<"etc", "passwd">>, kind |-> "file"],
      [path |-> UPLOAD_ROOT, kind |-> "dir"],
      [path |-> <<"app", "up_load", "a">>, kind |-> "dir"],
      [path |-> <<"app", "up_load", "a", "f.txt">>, kind |-> "file"],
      [path |-> <<"app", "up_load", "out">>, kind |-> "link"],
      [path |-> <<"app", "up_load", "in">>, kind |-> "link"],
      [path |-> RUN_ROOT, kind |-> "dir"],
      [path |-> <<"app", "web_runs", "r1">>, kind |-> "dir"],
      [path |-> <<"app", "web_runs", "r1", "org.md">>, kind |-> "file"] }

\* Path.resolve(): "." dropped, ".." steps up (never above "/"), a
\* component that is a symbolic link is replaced by its target.
RECURSIVE ResolveFrom(_, _, _)
ResolveFrom(f, cur, rest) ==
    IF rest = <<>> THEN cur
    ELSE LET c == Head(rest)
         IN  IF c = "." THEN ResolveFrom(f, cur, Tail(rest))
             ELSE IF c = ".."
                 THEN ResolveFrom(f, IF cur = <<>> THEN <<>> ELSE SubSeq(cur, 1, Len(cur) - 1),
                                  Tail(rest))
             ELSE IF [path |-> Append(cur, c), kind |-> "link"] \in f
                 THEN ResolveFrom(f, LinkTarget(Append(cur, c)), Tail(rest))
             ELSE ResolveFrom(f, Append(cur, c), Tail(rest))

Resolve(f, path) == ResolveFrom(f, <<>>, path)

\* A path of a request: absolute or relative, with its components.
ReqPath(abs, parts) == [abs |-> abs, parts |-> parts]

\* root / Path(relative_path): an absolute right operand replaces the left.
Join(root, rel) == IF rel.abs THEN rel.parts ELSE root \o rel.parts

\* The containment test left out.
AnyPath(full, root) == TRUE

\* full.relative_to(root) does not raise: root is a prefix of full, or full.
RelativeTo(full, root) ==
    Len(root) <= Len(full) /\ SubSeq(full, 1, Len(root)) = root

\* safe_join(root, relative_path): the resolved path, and whether it is
\* returned (ok) or ValueError("Invalid path") is raised.
safe_join(f, root, rel) ==
    LET root_resolved == Resolve(f, root)
        full == Resolve(f, Join(root_resolved, rel))
    IN  [ok |-> RelativeTo(full, root_resolved), path |-> full]

Exists(f, path) == \E e \in f : e.path = path
IsDir(f, path)  == [path |-> path, kind |-> "dir"] \in f
IsFile(f, path) == [path |-> path, kind |-> "file"] \in f

\* shutil.rmtree(target): the directory and everything below it.
Rmtree(f, target) ==
    {e \in f : ~(Len(target) <= Len(e.path) /\ SubSeq(e.path, 1, Len(target)) = target)}

\* target.mkdir(parents=True, exist_ok=True) raises when the target or one
\* of its ancestors is a file.
MkdirRaises(f, target) == \E k \in 1..Len(target) : IsFile(f, SubSeq(target, 1, k))

MkdirParents(f, target) ==
    f \cup {[path |-> SubSeq(target, 1, k), kind |-> "dir"] : k \in 1..Len(target)}

\* Values of request.get_json()["path"] and request.args["path"].
RequestPaths ==
    { ReqPath(FALSE, <<>>),                                 \* ""
      ReqPath(FALSE, <<".">>),
      ReqPath(FALSE, <<"a">>),
      ReqPath(FALSE, <<"a", "f.txt">>),
      ReqPath(FALSE, <<"new", "sub">>),
      ReqPath(FALSE, <<"a", "f.txt", "sub">>),
      ReqPath(FALSE, <<"..">>),
      ReqPath(FALSE, <<"..", "secret">>),
      ReqPath(FALSE, <<"a", "..", "..", "made">>),
      ReqPath(FALSE, <<"..", "web_runs", "r1">>),
      ReqPath(FALSE, <<"r1", "org.md">>),
      ReqPath(FALSE, <<"out">>),
      ReqPath(FALSE, <<"out", "passwd">>),
      ReqPath(FALSE, <<"in", "f.txt">>),
      ReqPath(TRUE, <<"etc", "passwd">>),
      ReqPath(TRUE, <<"app", "up_load", "a">>) }

\* The reply of a file route, with what the handler worked on.
Reply(route, status, req, target, served, before) ==
    [route |-> route, status |-> status, req |-> req, target |-> target,
     served |-> served, before |-> before]

InitServer ==
    /\ fs = InitialFs
    /\ reply = Reply("none", 0, ReqPath(FALSE, <<>>), <<>>, <<>>, InitialFs)
    /\ MainIdle /\ PromptsIdle /\ RunsIdle /\ StreamIdle /\ DirsIdle

\* delete_path()
Delete(rel) ==
    LET j == safe_join(fs, UPLOAD_ROOT, rel)
    IN  /\ IF rel.parts = <<>>
           THEN /\ reply' = Reply("delete", 400, rel, <<>>, <<>>, fs)
                /\ fs' = fs
           ELSE IF ~j.ok
           THEN /\ reply' = Reply("delete", 400, rel, j.path, <<>>, fs)
                /\ fs' = fs
           ELSE IF ~Exists(fs, j.path)
           THEN /\ reply' = Reply("delete", 404, rel, j.path, <<>>, fs)
                /\ fs' = fs
           ELSE /\ reply' = Reply("delete", 200, rel, j.path, <<>>, fs)
                /\ fs' = IF IsDir(fs, j.path) THEN Rmtree(fs, j.path)
                         ELSE fs \ {[path |-> j.path, kind |-> "file"]}
        /\ UNCHANGED <<mainVars, promptVars, runVars, streamVars, dirVars>>

\* make_dir()
Mkdir(rel) ==
    LET j == safe_join(fs, UPLOAD_ROOT, rel)
    IN  /\ IF rel.parts = <<>>
           THEN /\ reply' = Reply("mkdir", 400, rel, <<>>, <<>>, fs)
                /\ fs' = fs
           ELSE IF ~j.ok
           THEN /\ reply' = Reply("mkdir", 400, rel, j.path, <<>>, fs)
                /\ fs' = fs
           ELSE IF MkdirRaises(fs, j.path)
           THEN /\ reply' = Reply("mkdir", 500, rel, j.path, <<>>, fs)
                /\ fs' = fs
           ELSE /\ reply' = Reply("mkdir", 200, rel, j.path, <<>>, fs)
                /\ fs' = MkdirParents(fs, j.path)
        /\ UNCHANGED <<mainVars, promptVars, runVars, streamVars, dirVars>>

\* The loop of download_file() over RUN_ROOT and UPLOAD_ROOT: the first
\* root under which the path is accepted and exists.
DownloadCandidate(f, rel) ==
    LET inRun == safe_join(f, RUN_ROOT, rel)
        inUp  == safe_join(f, UPLOAD_ROOT, rel)
    IN  IF inRun.ok /\ Exists(f, inRun.path) THEN <<inRun.path>>
        ELSE IF inUp.ok /\ Exists(f, inUp.path) THEN <<inUp.path>>
        ELSE <<>>

\* download_file(); send_from_directory answers 404 for what is no file.
Download(rel) ==
    LET found == DownloadCandidate(fs, rel)
    IN  /\ IF rel.parts = <<>>
           THEN reply' = Reply("download", 400, rel, <<>>, <<>>, fs)
           ELSE IF found = <<>>
           THEN reply' = Reply("download", 404, rel, <<>>, <<>>, fs)
           ELSE IF ~IsFile(fs, found[1])
           THEN reply' = Reply("download", 404, rel, found[1], <<>>, fs)
           ELSE reply' = Reply("download", 200, rel, found[1], found[1], fs)
        /\ UNCHANGED <<fs, mainVars, promptVars, runVars, streamVars, dirVars>>

NextServer ==
    \/ \E rel \in RequestPaths : Delete(rel)
    \/ \E rel \in RequestPaths : Mkdir(rel)
    \/ \E rel \in RequestPaths : Download(rel)

SpecServer == InitServer /\ [][NextServer]_vars

\* path is root or lies below it.
Below(path, root) ==
    \E rest \in {SubSeq(path, k, Len(path)) : k \in 1..(Len(path) + 1)} : path = root \o rest

\* C14: /delete and /mkdir change nothing but entries at or below a target
\* that resolves within the upload root, and answer 400 with the file
\* system as it was when the target resolves elsewhere; /download serves
\* only a file that resolves within the run root or the upload root.
C14_PathContainment ==
    /\ reply.route \in {"delete", "mkdir"} =>
          /\ \A e \in (fs \ reply.before) \cup (reply.before \ fs) :
                /\ Below(e.path, Resolve(reply.before, UPLOAD_ROOT))
                /\ Below(reply.target, Resolve(reply.before, UPLOAD_ROOT))
          /\ (reply.target # <<>> /\ ~Below(reply.target, Resolve(reply.before, UPLOAD_ROOT)))
                => reply.status = 400 /\ fs = reply.before
          /\ reply.target = <<>> => reply.status = 400 /\ fs = reply.before
    /\ reply.route = "download" =>
          /\ fs = reply.before
          /\ reply.status = 200 =>
                /\ IsFile(fs, reply.served)
                /\ \/ Below(reply.served, Resolve(fs, RUN_ROOT))
                   \/ Below(reply.served, Resolve(fs, UPLOAD_ROOT))
    /\ {e \in fs : ~Below(e.path, UPLOAD_ROOT)} = {e \in InitialFs : ~Below(e.path, UPLOAD_ROOT)}

\* A traversal out of the upload root was answered 400 by /delete, or a
\* link leading out of it was refused by /download.
C14_Witness ==
    \/ /\ reply.route = "delete" /\ reply.req = ReqPath(FALSE, <<"..", "secret">>)
       /\ reply.target = <<"app", "secret">> /\ reply.status = 400
    \/ /\ reply.route = "download" /\ reply.req = ReqPath(FALSE, <<"out", "passwd">>)
       /\ reply.status = 404

----------------------------------------------------------------------------
\* run_analysis and the process environment
\*
\* The value of DEEPSEEK_API_KEY is [set, v]: unset, or set to the string v.

Unset  == [set |-> FALSE, v |-> ""]
SetTo(v) == [set |-> TRUE, v |-> v]

\* The threads that serve /run and /run-stream requests.
Threads == {1, 2}

\* Lines 159-160: `if api_key: os.environ[...] = api_key`
EnvAfterSet(api_key, env) == IF api_key # "" THEN SetTo(api_key) ELSE env

\* The variable left as it is when there was no value to put back.
KeepWhenNoBackup(backup, env) == IF backup.set THEN backup ELSE env

\* Lines 221-225: the finally block pops the variable when env_backup is
\* None and puts env_backup back otherwise.
RestoredEnv(backup, env) == IF backup.set THEN backup ELSE Unset

\* load_env_from_file: a DEEPSEEK_API_KEY line of .env is put in the
\* environment only when the variable is not set.  dotenv is <<>> when the
\* file has no such line, else <<value>>.
EnvAfterDotenv(dotenv, env) ==
    IF dotenv # <<>> /\ ~env.set THEN SetTo(dotenv[1]) ELSE env

DotenvValues == {<<>>, <<"">>, <<"file">>}

\* A run_analysis call: its position, the api_key of its payload ("" when
\* the payload has none), env_backup, the key its client was created with,
\* and what an observer of the call has seen.
IdleRun(key, env) ==
    [pc |-> "idle", key |-> key, backup |-> Unset, client |-> <<>>,
     outcome |-> "none", envAtCall |-> Unset, envAtReturn |-> Unset,
     envAtStart |-> env, overlapped |-> FALSE]

Active(r) == r.pc \notin {"idle", "returned"}

Other(t) == CHOOSE u \in Threads : u # t

InitRuns ==
    /\ environ \in {Unset, SetTo(""), SetTo("old")}
    /\ \E k1 \in {"", "k1"}, k2 \in {"", "k2"} :
          runs = <<IdleRun(k1, environ), IdleRun(k2, environ)>>
    /\ MainIdle /\ PromptsIdle /\ ServerIdle /\ StreamIdle /\ DirsIdle

\* The call is made: lines 132-140.
CallRun(t) ==
    /\ runs[t].pc = "idle"
    /\ LET both == Active(runs[Other(t)])
       IN  runs' = [u \in Threads |->
                     IF u = t
                     THEN [runs[t] EXCEPT !.pc = "check", !.envAtCall = environ,
                                          !.overlapped = both]
                     ELSE [runs[u] EXCEPT !.overlapped = @ \/ both]]
    /\ UNCHANGED <<environ, mainVars, promptVars, serverVars, streamVars, dirVars>>

\* Lines 143-151: nothing to process, the call returns at once.
EarlyReturn(t) ==
    /\ runs[t].pc = "check"
    /\ runs' = [runs EXCEPT ![t].pc = "returned", ![t].outcome = "early",
                            ![t].envAtReturn = environ]
    /\ UNCHANGED <<environ, mainVars, promptVars, serverVars, streamVars, dirVars>>

\* Line 158: env_backup = os.environ.get("DEEPSEEK_API_KEY")
Backup(t) ==
    /\ runs[t].pc = "check"
    /\ runs' = [runs EXCEPT ![t].pc = "set", ![t].backup = environ]
    /\ UNCHANGED <<environ, mainVars, promptVars, serverVars, streamVars, dirVars>>

\* Lines 159-160
SetKey(t) ==
    /\ runs[t].pc = "set"
    /\ environ' = EnvAfterSet(runs[t].key, environ)
    /\ runs' = [runs EXCEPT ![t].pc = "main"]
    /\ UNCHANGED <<mainVars, promptVars, serverVars, streamVars, dirVars>>

\* analyze_reports.main line 370: load_env_from_file(args.env_file)
LoadEnv(t) ==
    /\ runs[t].pc = "main"
    /\ \E dotenv \in DotenvValues : environ' = EnvAfterDotenv(dotenv, environ)
    /\ runs' = [runs EXCEPT ![t].pc = "client"]
    /\ UNCHANGED <<mainVars, promptVars, serverVars, streamVars, dirVars>>

\* main() leaves before the client is created: argparse, or line 372-373.
Abort(t) ==
    /\ runs[t].pc = "client"
    /\ \E how \in {"SystemExit", "exception"} :
          runs' = [runs EXCEPT ![t].pc = "restore", ![t].outcome = how]
    /\ UNCHANGED <<environ, mainVars, promptVars, serverVars, streamVars, dirVars>>

\* create_client(): SystemExit without a key, else OpenAI(api_key=...)
CreateClient(t) ==
    /\ runs[t].pc = "client"
    /\ IF ~environ.set \/ environ.v = ""
       THEN runs' = [runs EXCEPT ![t].pc = "restore", ![t].outcome = "SystemExit"]
       ELSE runs' = [runs EXCEPT ![t].pc = "work", ![t].client = <<environ.v>>]
    /\ UNCHANGED <<environ, mainVars, promptVars, serverVars, streamVars, dirVars>>

\* The rest of main(): it returns, exits or raises.
Finish(t) ==
    /\ runs[t].pc = "work"
    /\ \E how \in {"ok", "SystemExit", "exception"} :
          runs' = [runs EXCEPT ![t].pc = "restore", ![t].outcome = how]
    /\ UNCHANGED <<environ, mainVars, promptVars, serverVars, streamVars, dirVars>>

\* Lines 221-225
Restore(t) ==
    /\ runs[t].pc = "restore"
    /\ environ' = RestoredEnv(runs[t].backup, environ)
    /\ runs' = [runs EXCEPT ![t].pc = "tail"]
    /\ UNCHANGED <<mainVars, promptVars, serverVars, streamVars, dirVars>>

\* Lines 226-241: the result is built and returned.
Return(t) ==
    /\ runs[t].pc = "tail"
    /\ runs' = [runs EXCEPT ![t].pc = "returned", ![t].envAtReturn = environ]
    /\ UNCHANGED <<environ, mainVars, promptVars, serverVars, streamVars, dirVars>>

NextRuns ==
    \E t \in Threads :
        \/ CallRun(t)
        \/ EarlyReturn(t)
        \/ Backup(t)
        \/ SetKey(t)
        \/ LoadEnv(t)
        \/ Abort(t)
        \/ CreateClient(t)
        \/ Finish(t)
        \/ Restore(t)
        \/ Return(t)

SpecRuns == InitRuns /\ [][NextRuns]_vars

\* C15: a run_analysis call that overlaps no other leaves DEEPSEEK_API_KEY
\* as it found it, whatever its outcome, and the api_key of its payload is
\* in the environment only between the set and the restore.
C15_CredentialRestore ==
    \A t \in Threads :
        ~runs[t].overlapped =>
            /\ runs[t].pc = "returned" => runs[t].envAtReturn = runs[t].envAtCall
            /\ (runs[t].key # "" /\ environ = SetTo(runs[t].key))
                  => runs[t].pc \in {"main", "client", "work", "restore"}

\* A call with a key in its payload, made with the variable unset, ended in
\* an exception and has returned.
C15_Witness ==
    \E t \in Threads :
        /\ runs[t].pc = "returned" /\ ~runs[t].overlapped
        /\ runs[t].key # "" /\ runs[t].outcome = "exception"
        /\ ~runs[t].envAtCall.set /\ ~runs[t].envAtReturn.set

\* Two calls with an api_key each that have both returned.
BothReturned == \A t \in Threads : runs[t].pc = "returned" /\ runs[t].key # ""

\* Every client that was created got the key of its own run, and the
\* variable is what it was before either call.
Isolated ==
    /\ \A t \in Threads : runs[t].client # <<>> => runs[t].client = <<runs[t].key>>
    /\ environ = runs[1].envAtStart

\* C20 as stated: two concurrent run_analysis calls with different keys each
\* create their client with their own key, and once both have returned
\* DEEPSEEK_API_KEY is what it was before either started.
C20_IsolationUnderOverlap ==
    (BothReturned /\ runs[1].overlapped) => Isolated

----------------------------------------------------------------------------
\* run_stream: the worker thread, the queue and the response generator,
\* with the thread of one more run_analysis call in the same process
\*
\* sys.stdout is "orig" (the stream of the process), "own" (the Writer of
\* the run behind the stream) or "other" (the Writer of the other run).

\* Largest number of chunks main() writes to stdout in a run.
MaxChunks == 1

\* Characters at which str.splitlines breaks a line.
LineBreaks == {10, 11, 12, 13, 28, 29, 30, 133, 8232, 8233}

\* Length of the first line of s, its line end included.
FirstLineLen(s) ==
    LET ends == {i \in 1..Len(s) : s[i] \in LineBreaks}
    IN  IF ends = {} THEN Len(s)
        ELSE LET i == CHOOSE e \in ends : \A f \in ends : e <= f
             IN  IF s[i] = 13 /\ i < Len(s) /\ s[i + 1] = 10 THEN i + 1 ELSE i

\* chunk.splitlines(True): the lines with their line ends kept.
RECURSIVE SplitLines(_)
SplitLines(s) ==
    IF s = <<>> THEN <<>>
    ELSE LET n == FirstLineLen(s)
         IN  <<SubSeq(s, 1, n)>> \o SplitLines(SubSeq(s, n + 1, Len(s)))

\* "".join(chunks)
RECURSIVE JoinChunks(_)
JoinChunks(chunks) ==
    IF chunks = <<>> THEN <<>> ELSE Head(chunks) \o JoinChunks(Tail(chunks))

StartBanner ==
    <<91, 119, 101, 98, 93, 32, 24320, 22987, 25191, 34892, 20998, 26512, 20219,
      21153, 46, 46, 46, 10>>   \* "[web] 开始执行分析任务...\n"

\* f"[web] 任务结束，退出码 {exit_code}\n" for a one-digit exit code
EndBanner(exit_code) ==
    <<91, 119, 101, 98, 93, 32, 20219, 21153, 32467, 26463, 65292, 36864, 20986,
      30721, 32>> \o <<48 + exit_code, 10>>

\* What main() writes in one call of Writer.write: "", "a", "a\nb", "a\r\n".
Chunks == {<<>>, <<97>>, <<97, 10, 98>>, <<97, 13, 10>>}

\* The two writes of print("x") in the other run: the text, then "\n".
PrintWrites == << <<120>>, <<10>> >>

\* How main() ends inside run_analysis: the exit code and the text that the
\* handler emits (none when main() returns or exits with code 0 or None).
Endings ==
    { [exit_code |-> 0, text |-> <<>>],
      [exit_code |-> 1, text |-> <<98, 111, 111, 109>>] }       \* "boom"

\* The dict run_analysis returns; None is <<>>.
Result(exit_code, full_log, run_dir, individual, organization) ==
    [exit_code |-> exit_code, stdout |-> full_log, run_dir |-> run_dir,
     individual |-> individual, organization |-> organization]

NoResult == Result(0, <<>>, <<>>, <<>>, <<>>)

\* The artifacts a run may leave in its directory.
ArtifactSets ==
    { [individual |-> <<>>, organization |-> <<>>],
      [individual |-> <<"web_runs/run-1/individual_summaries.json">>,
       organization |-> <<"web_runs/run-1/organization_review.md">>] }

\* The items put on the queue.
LogEvent(line)    == [type |-> "log", message |-> line, result |-> NoResult]
DoneEvent(result) == [type |-> "done", message |-> <<>>, result |-> result]
ErrorEvent(text)  == [type |-> "error", message |-> text, result |-> NoResult]
Sentinel          == [type |-> "None", message |-> <<>>, result |-> NoResult]

\* The worker: its position, log_chunks, the lines of the chunk in hand that
\* progress() has still to put, the number of chunks main() has written,
\* the exit code and the result of run_analysis.
WorkerAt(at, log_chunks, pending, written, exit_code, result) ==
    [pc |-> at, log_chunks |-> log_chunks, pending |-> pending,
     written |-> written, exit_code |-> exit_code, result |-> result]

\* emit(text) called by the worker, as far as the call of progress_cb:
\* nothing for an empty text.
Emit(w, text) ==
    IF text = <<>> THEN w
    ELSE [w EXCEPT !.log_chunks = Append(@, text), !.pending = SplitLines(text)]

\* The thread of the other run: its position, the file object its print()
\* has taken from sys.stdout ("none" outside print), the writes of that
\* print still to make, the lines its call of the worker's progress() has
\* still to put, and whether it has printed.
OtherAt(at, file, writes, lines, printed) ==
    [pc |-> at, file |-> file, writes |-> writes, lines |-> lines, printed |-> printed]

InitStream ==
    /\ queue = <<>>
    /\ worker = WorkerAt("start", <<>>, <<>>, 0, 0, NoResult)
    /\ emitted = [events |-> <<>>, open |-> TRUE]
    /\ stdout = [now |-> "orig", ownOld |-> "orig", otherOld |-> "orig"]
    /\ other = OtherAt("idle", "none", <<>>, <<>>, FALSE)
    /\ MainIdle /\ PromptsIdle /\ ServerIdle /\ RunsIdle /\ DirsIdle

\* run_analysis raises before its try block: float(), int() or safe_join.
WorkerRaises ==
    /\ worker.pc = "start"
    /\ queue' = Append(queue, ErrorEvent(<<98, 111, 111, 109>>))
    /\ worker' = [worker EXCEPT !.pc = "finally"]
    /\ UNCHANGED <<emitted, stdout, other, mainVars, promptVars, serverVars, runVars, dirVars>>

\* Lines 143-151: the input directory is empty.
WorkerEarlyReturn ==
    /\ worker.pc = "start"
    /\ worker' = [worker EXCEPT !.pc = "put_done",
                                !.result = Result(1, <<>>, <<>>, <<>>, <<>>)]
    /\ UNCHANGED <<queue, emitted, stdout, other, mainVars, promptVars, serverVars, runVars, dirVars>>

\* Lines 200-201: emit("[web] 开始执行分析任务...\n")
WorkerBegins ==
    /\ worker.pc = "start"
    /\ worker' = Emit([worker EXCEPT !.pc = "enter"], StartBanner)
    /\ UNCHANGED <<queue, emitted, stdout, other, mainVars, promptVars, serverVars, runVars, dirVars>>

\* progress(): one q.put per line of the chunk.
WorkerPutsLine ==
    /\ worker.pending # <<>>
    /\ queue' = Append(queue, LogEvent(Head(worker.pending)))
    /\ worker' = [worker EXCEPT !.pending = Tail(@)]
    /\ UNCHANGED <<emitted, stdout, other, mainVars, promptVars, serverVars, runVars, dirVars>>

\* Line 210, redirect_stdout(writer).__enter__: sys.stdout is saved and
\* replaced by the Writer.
WorkerEnters ==
    /\ worker.pc = "enter"
    /\ worker.pending = <<>>
    /\ stdout' = [stdout EXCEPT !.ownOld = stdout.now, !.now = "own"]
    /\ worker' = [worker EXCEPT !.pc = "main"]
    /\ UNCHANGED <<queue, emitted, other, mainVars, promptVars, serverVars, runVars, dirVars>>

\* main() writes a chunk to sys.stdout: Writer.write(s) calls emit(s) when
\* sys.stdout is the worker's Writer.
WorkerWrites ==
    /\ worker.pc = "main"
    /\ worker.pending = <<>>
    /\ worker.written < MaxChunks
    /\ \E chunk \in Chunks :
          worker' = IF stdout.now = "own"
                    THEN Emit([worker EXCEPT !.written = @ + 1], chunk)
                    ELSE [worker EXCEPT !.written = @ + 1]
    /\ UNCHANGED <<queue, emitted, stdout, other, mainVars, promptVars, serverVars, runVars, dirVars>>

\* main() ends: redirect_stdout.__exit__ puts back what it saved, and the
\* handlers of lines 214-220 emit the text of the exception.
WorkerMainEnds ==
    /\ worker.pc = "main"
    /\ worker.pending = <<>>
    /\ stdout' = [stdout EXCEPT !.now = stdout.ownOld]
    /\ \E e \in Endings :
          worker' = Emit([worker EXCEPT !.pc = "after", !.exit_code = e.exit_code], e.text)
    /\ UNCHANGED <<queue, emitted, other, mainVars, promptVars, serverVars, runVars, dirVars>>

\* Lines 226-227: emit(f"[web] 任务结束，退出码 {exit_code}\n")
WorkerEndBanner ==
    /\ worker.pc = "after"
    /\ worker.pending = <<>>
    /\ worker' = Emit([worker EXCEPT !.pc = "build"], EndBanner(worker.exit_code))
    /\ UNCHANGED <<queue, emitted, stdout, other, mainVars, promptVars, serverVars, runVars, dirVars>>

\* Lines 229-241: full_log and the result dict.
WorkerBuildsResult ==
    /\ worker.pc = "build"
    /\ worker.pending = <<>>
    /\ \E a \in ArtifactSets :
          worker' = [worker EXCEPT
                        !.pc = "put_done",
                        !.result = Result(worker.exit_code, JoinChunks(worker.log_chunks),
                                          <<"web_runs/run-1">>, a.individual, a.organization)]
    /\ UNCHANGED <<queue, emitted, stdout, other, mainVars, promptVars, serverVars, runVars, dirVars>>

\* q.put({"type": "done", **result})
WorkerPutsDone ==
    /\ worker.pc = "put_done"
    /\ queue' = Append(queue, DoneEvent(worker.result))
    /\ worker' = [worker EXCEPT !.pc = "finally"]
    /\ UNCHANGED <<emitted, stdout, other, mainVars, promptVars, serverVars, runVars, dirVars>>

\* The worker ends without the put of its finally clause.
WorkerEndsSilently ==
    /\ worker.pc = "finally"
    /\ worker' = [worker EXCEPT !.pc = "exited"]
    /\ UNCHANGED <<queue, emitted, stdout, other, mainVars, promptVars, serverVars, runVars, dirVars>>

\* finally: q.put(None)
WorkerPutsSentinel ==
    /\ worker.pc = "finally"
    /\ queue' = Append(queue, Sentinel)
    /\ worker' = [worker EXCEPT !.pc = "exited"]
    /\ UNCHANGED <<emitted, stdout, other, mainVars, promptVars, serverVars, runVars, dirVars>>

\* stream(): item = q.get(); break on None, else yield the event.
StreamGets ==
    /\ emitted.open
    /\ queue # <<>>
    /\ queue' = Tail(queue)
    /\ emitted' = IF Head(queue) = Sentinel
                  THEN [emitted EXCEPT !.open = FALSE]
                  ELSE [emitted EXCEPT !.events = Append(@, Head(queue))]
    /\ UNCHANGED <<worker, stdout, other, mainVars, promptVars, serverVars, runVars, dirVars>>

\* The other run enters its redirect_stdout.
OtherEnters ==
    /\ other.pc = "idle"
    /\ stdout' = [stdout EXCEPT !.otherOld = stdout.now, !.now = "other"]
    /\ other' = [other EXCEPT !.pc = "main"]
    /\ UNCHANGED <<queue, worker, emitted, mainVars, promptVars, serverVars, runVars, dirVars>>

\* The one print(...) in the main() of the other run: it reads sys.stdout
\* once.
OtherPrints ==
    /\ other.pc = "main"
    /\ ~other.printed
    /\ other' = [other EXCEPT !.file = stdout.now, !.writes = PrintWrites,
                              !.printed = TRUE]
    /\ UNCHANGED <<queue, worker, emitted, stdout, mainVars, promptVars, serverVars, runVars, dirVars>>

\* One file.write(s) of that print: when the file is the worker's Writer,
\* the other thread runs the worker's emit(): log_chunks.append(s), then
\* progress(s).
OtherWrites ==
    /\ other.writes # <<>>
    /\ other.lines = <<>>
    /\ other' = [other EXCEPT
                    !.writes = Tail(@),
                    !.file = IF Len(other.writes) = 1 THEN "none" ELSE @,
                    !.lines = IF other.file = "own" THEN SplitLines(Head(other.writes))
                              ELSE <<>>]
    /\ worker' = IF other.file = "own"
                 THEN [worker EXCEPT !.log_chunks = Append(@, Head(other.writes))]
                 ELSE worker
    /\ UNCHANGED <<queue, emitted, stdout, mainVars, promptVars, serverVars, runVars, dirVars>>

\* progress() run by the other thread: one q.put per line.
OtherPutsLine ==
    /\ other.lines # <<>>
    /\ queue' = Append(queue, LogEvent(Head(other.lines)))
    /\ other' = [other EXCEPT !.lines = Tail(@)]
    /\ UNCHANGED <<worker, emitted, stdout, mainVars, promptVars, serverVars, runVars, dirVars>>

\* The main() of the other run ends: its redirect_stdout puts back what it
\* saved.
OtherExits ==
    /\ other.pc = "main"
    /\ other.file = "none"
    /\ other.lines = <<>>
    /\ stdout' = [stdout EXCEPT !.now = stdout.otherOld]
    /\ other' = [other EXCEPT !.pc = "exited"]
    /\ UNCHANGED <<queue, worker, emitted, mainVars, promptVars, serverVars, runVars, dirVars>>

NextStream ==
    \/ WorkerRaises
    \/ WorkerEarlyReturn
    \/ WorkerBegins
    \/ WorkerPutsLine
    \/ WorkerEnters
    \/ WorkerWrites
    \/ WorkerMainEnds
    \/ WorkerEndBanner
    \/ WorkerBuildsResult
    \/ WorkerPutsDone
    \/ WorkerPutsSentinel
    \/ StreamGets
    \/ OtherEnters
    \/ OtherPrints
    \/ OtherWrites
    \/ OtherPutsLine
    \/ OtherExits

SpecStream == InitStream /\ [][NextStream]_vars

\* The messages of the log events among the first n emitted events, joined.
RECURSIVE LogText(_)
LogText(n) ==
    IF n = 0 THEN <<>>
    ELSE LogText(n - 1) \o (IF emitted.events[n].type = "log"
                            THEN emitted.events[n].message ELSE <<>>)

\* C16: the events of a /run-stream response are log events followed by
\* exactly one done or error event, after which the stream ends: every event
\* that has a successor is a log event, a closed stream ends in a done or
\* error event, and the log events come in the order in which the run
\* produced their text.
C16_EventProtocol ==
    /\ \A i \in 1..Len(emitted.events) :
          /\ emitted.events[i].type \in {"log", "done", "error"}
          /\ i < Len(emitted.events) => emitted.events[i].type = "log"
    /\ ~emitted.open =>
          /\ emitted.events # <<>>
          /\ emitted.events[Len(emitted.events)].type \in {"done", "error"}
    /\ IsPrefix(LogText(Len(emitted.events)), JoinChunks(worker.log_chunks))

\* C17: when the stream has ended in a done event, the messages of the log
\* events before it, joined in the order of emission, are the stdout of that
\* event, and the event carries the exit code, the run directory and the
\* artifact paths of the result of run_analysis.
C17_LogTextIsStdout ==
    \A i \in 1..Len(emitted.events) :
        emitted.events[i].type = "done" =>
            /\ LogText(i) = emitted.events[i].result.stdout
            /\ emitted.events[i].result = worker.result

----------------------------------------------------------------------------
\* Two run_analysis calls that share RUN_ROOT: the run directory is named
\* after the second in which the call reads the clock, then main() writes
\* its artifacts there.

\* Last second the clock reaches.
MaxClock == 1

\* The artifacts of a run, in the order main() writes them.
ArtifactFiles ==
    <<"per_report/a.json", "individual_summaries.json", "organization_review.md">>

\* Line 153: run_name = f"run-{datetime.now().strftime('%Y%m%d-%H%M%S')}"
RunName(now) == <<"run", now>>

\* No run directory: "run_dir": None of the early return.
NoDir == <<>>

\* One call: its position, its out_dir, how many artifacts its main() has
\* written, and the result it returned.
JobAt(at, out_dir, written, result) ==
    [pc |-> at, out_dir |-> out_dir, written |-> written, result |-> result]

NoJobResult == [run_dir |-> NoDir, individual |-> FALSE, organization |-> FALSE]

\* path.exists() below RUN_ROOT
OnDisk(dir, file) == \E e \in disk : e.dir = dir /\ e.file = file

\* write_text: the file holds what the writer wrote, whatever it held.
WriteText(dir, file, t) ==
    {e \in disk : ~(e.dir = dir /\ e.file = file)}
        \cup {[dir |-> dir, file |-> file, by |-> t]}

InitDirs ==
    /\ clock = 0
    /\ jobs = [t \in Threads |-> JobAt("idle", NoDir, 0, NoJobResult)]
    /\ disk = {}
    /\ MainIdle /\ PromptsIdle /\ ServerIdle /\ RunsIdle /\ StreamIdle

\* A second passes.
Tick ==
    /\ clock < MaxClock
    /\ clock' = clock + 1
    /\ UNCHANGED <<jobs, disk, mainVars, promptVars, serverVars, runVars, streamVars>>

\* The request arrives: lines 132-140.
JobCalled(t) ==
    /\ jobs[t].pc = "idle"
    /\ jobs' = [jobs EXCEPT ![t].pc = "check"]
    /\ UNCHANGED <<clock, disk, mainVars, promptVars, serverVars, runVars, streamVars>>

\* Lines 143-151: the input directory is empty.
JobEarlyReturn(t) ==
    /\ jobs[t].pc = "check"
    /\ jobs' = [jobs EXCEPT ![t].pc = "returned"]
    /\ UNCHANGED <<clock, disk, mainVars, promptVars, serverVars, runVars, streamVars>>

\* Lines 153-155: the name is taken from the clock and the directory is made,
\* or found (exist_ok=True).
JobMakesDir(t) ==
    /\ jobs[t].pc = "check"
    /\ jobs' = [jobs EXCEPT ![t].pc = "main", ![t].out_dir = RunName(clock)]
    /\ UNCHANGED <<clock, disk, mainVars, promptVars, serverVars, runVars, streamVars>>

\* main() writes its next artifact into out_dir.
JobWrites(t) ==
    /\ jobs[t].pc = "main"
    /\ jobs[t].written < Len(ArtifactFiles)
    /\ disk' = WriteText(jobs[t].out_dir, ArtifactFiles[jobs[t].written + 1], t)
    /\ jobs' = [jobs EXCEPT ![t].written = @ + 1]
    /\ UNCHANGED <<clock, mainVars, promptVars, serverVars, runVars, streamVars>>

\* main() ends, after its last artifact or before it (SystemExit or an
\* exception), and lines 231-241 build the result from what out_dir holds.
JobReturns(t) ==
    /\ jobs[t].pc = "main"
    /\ jobs' = [jobs EXCEPT
                   ![t].pc = "returned",
                   ![t].result =
                       [run_dir |-> jobs[t].out_dir,
                        individual |-> OnDisk(jobs[t].out_dir, "individual_summaries.json"),
                        organization |-> OnDisk(jobs[t].out_dir, "organization_review.md")]]
    /\ UNCHANGED <<clock, disk, mainVars, promptVars, serverVars, runVars, streamVars>>

NextDirs ==
    \/ Tick
    \/ \E t \in Threads :
          \/ JobCalled(t)
          \/ JobEarlyReturn(t)
          \/ JobMakesDir(t)
          \/ JobWrites(t)
          \/ JobReturns(t)

SpecDirs == InitDirs /\ [][NextDirs]_vars

\* The artifacts the main() of a call has written so far.
WrittenBy(t) == {ArtifactFiles[i] : i \in 1..jobs[t].written}

\* C21: two calls that have passed the empty-input check have distinct run
\* directories, every artifact a call has written still holds what that call
\* wrote, and an artifact named in a result was written by the call that
\* returned it.
C21_RunDirSeparation ==
    /\ \A t, u \in Threads :
          (t # u /\ jobs[t].out_dir # NoDir /\ jobs[u].out_dir # NoDir)
              => jobs[t].out_dir # jobs[u].out_dir
    /\ \A t \in Threads :
          /\ \A f \in WrittenBy(t) :
                [dir |-> jobs[t].out_dir, file |-> f, by |-> t] \in disk
          /\ jobs[t].result.individual => "individual_summaries.json" \in WrittenBy(t)
          /\ jobs[t].result.organization => "organization_review.md" \in WrittenBy(t)

----------------------------------------------------------------------------
\* The route /upload

\* Most files of one request, and most entries the uploads of a behaviour
\* add to the file system.
MaxUploadFiles == 1
MaxNewEntries == 3

\* werkzeug's secure_filename on the names of the model: non-ASCII
\* characters dropped, "/" turned into a blank, blanks into "_", leading and
\* trailing "." and "_" stripped.
secure_filename(name) ==
    CASE name = "a.txt" -> "a.txt"
      [] name = "a b.txt" -> "a_b.txt"
      [] name = "../../etc/passwd" -> "etc_passwd"
      [] name = ".." -> ""
      [] name = "out" -> "out"

UploadNames == {"a.txt", "a b.txt", "../../etc/passwd", "..", "out"}

UploadLists == UNION {[1..k -> UploadNames] : k \in 0..MaxUploadFiles}

\* Values of request.form["department"], stripped.
Departments ==
    { ReqPath(FALSE, <<>>),                                 \* "" and "  "
      ReqPath(FALSE, <<"a">>),
      ReqPath(FALSE, <<"new", "sub">>),
      ReqPath(FALSE, <<"new", "..", "x">>),
      ReqPath(FALSE, <<"a", "f.txt">>),
      ReqPath(FALSE, <<"..">>),
      ReqPath(FALSE, <<"..", "escaped">>),
      ReqPath(FALSE, <<"..", "web_runs", "r1">>),
      ReqPath(FALSE, <<"out">>),
      ReqPath(TRUE, <<"etc", "cron">>) }

\* The directories target.mkdir(parents=True, exist_ok=True) makes or finds:
\* the operating system follows the path as written, so each prefix of it
\* names a directory, ".." and links included.
WalkedDirs(f, target) ==
    {Resolve(f, SubSeq(target, 1, k)) : k \in 1..Len(target)} \ {<<>>}

\* It raises when one of them is a file.
WalkRaises(f, target) == \E d \in WalkedDirs(f, target) : IsFile(f, d)

MkdirWalk(f, target) == f \cup {[path |-> d, kind |-> "dir"] : d \in WalkedDirs(f, target)}

\* The loop of lines 54-61 over the files left, with the places written so
\* far: a name that secure_filename empties is skipped; file.save(dest)
\* writes where dest leads and raises on a directory; dest.relative_to
\* raises, after the save, for a dest that does not start with BASE_DIR.
RECURSIVE SaveFiles(_, _, _, _)
SaveFiles(f, target, files, saved) ==
    IF files = <<>> THEN [fs |-> f, saved |-> saved, status |-> 200]
    ELSE LET fname == secure_filename(Head(files))
             dest  == Append(target, fname)
             place == Resolve(f, dest)
         IN  IF fname = "" THEN SaveFiles(f, target, Tail(files), saved)
             ELSE IF IsDir(f, place) THEN [fs |-> f, saved |-> saved, status |-> 500]
             ELSE LET after == f \cup {[path |-> place, kind |-> "file"]}
                  IN  IF ~RelativeTo(dest, BASE_DIR)
                      THEN [fs |-> after, saved |-> Append(saved, place), status |-> 500]
                      ELSE SaveFiles(after, target, Tail(files), Append(saved, place))

InitUpload ==
    /\ fs = InitialFs
    /\ reply = Reply("none", 0, ReqPath(FALSE, <<>>), <<>>, <<>>, InitialFs)
    /\ MainIdle /\ PromptsIdle /\ RunsIdle /\ StreamIdle /\ DirsIdle

\* upload_files()
Upload(dept, files) ==
    LET target == IF dept.parts = <<>> THEN UPLOAD_ROOT ELSE Join(UPLOAD_ROOT, dept)
        done   == SaveFiles(MkdirWalk(fs, target), target, files, <<>>)
    IN  /\ Cardinality(fs) < Cardinality(InitialFs) + MaxNewEntries
        /\ IF WalkRaises(fs, target)
           THEN /\ reply' = Reply("upload", 500, dept, Resolve(fs, target), <<>>, fs)
                /\ fs' = fs
           ELSE /\ reply' = Reply("upload", done.status, dept, Resolve(fs, target),
                                  done.saved, fs)
                /\ fs' = done.fs
        /\ UNCHANGED <<mainVars, promptVars, runVars, streamVars, dirVars>>

NextUpload == \E dept \in Departments, files \in UploadLists : Upload(dept, files)

SpecUpload == InitUpload /\ [][NextUpload]_vars

\* C22: whatever the department and the file names, /upload makes
\* directories and saves files only at places that resolve within the
\* upload root, and removes nothing.
C22_UploadContainment ==
    reply.route = "upload" =>
        /\ reply.before \subseteq fs
        /\ \A e \in fs \ reply.before : Below(e.path, Resolve(reply.before, UPLOAD_ROOT))
        /\ \A i \in 1..Len(reply.served) :
              Below(reply.served[i], Resolve(reply.before, UPLOAD_ROOT))

----------------------------------------------------------------------------
\* The end of a /run-stream response

\* A step of the worker thread, and the run under the scheduling of threads:
\* a thread that can take a step takes one in the end.
WorkerStep ==
    \/ WorkerRaises
    \/ WorkerEarlyReturn
    \/ WorkerBegins
    \/ WorkerPutsLine
    \/ WorkerEnters
    \/ WorkerWrites
    \/ WorkerMainEnds
    \/ WorkerEndBanner
    \/ WorkerBuildsResult
    \/ WorkerPutsDone
    \/ WorkerPutsSentinel

FairSpecStream == SpecStream /\ WF_vars(WorkerStep) /\ WF_vars(StreamGets)

\* The sentinels put so far: those in the queue and the one that closed the
\* stream.
SentinelsPut ==
    Cardinality({i \in 1..Len(queue) : queue[i] = Sentinel})
        + (IF emitted.open THEN 0 ELSE 1)

TerminalEmitted ==
    \E i \in 1..Len(emitted.events) : emitted.events[i].type \in {"done", "error"}

\* The parts of C23 that hold in every state.
StreamEndsSafely ==
    /\ SentinelsPut = (IF worker.pc = "exited" THEN 1 ELSE 0)
    /\ worker.pc = "exited" => worker.pending = <<>> /\ ~ENABLED WorkerStep
    /\ (worker.pc = "exited" /\ emitted.open) =>
          /\ \E i \in 1..Len(queue) : queue[i] = Sentinel
          /\ ENABLED StreamGets
    /\ ~emitted.open => worker.pc = "exited" /\ TerminalEmitted

\* C23: the worker puts the sentinel exactly once, when it ends, and puts
\* nothing after it; once the worker has ended the generator has an item to
\* get as long as the stream is open; the stream closes only after the done
\* or error event was emitted; and under fair scheduling of the worker and
\* the generator the stream closes.
C23_StreamTermination == []StreamEndsSafely /\ <>(~emitted.open)

\* The stream of a run that went through main() has closed while another run
\* had been printing.
C23_Witness ==
    /\ ~emitted.open
    /\ worker.pc = "exited"
    /\ worker.written > 0
    /\ other.printed
    /\ emitted.events[Len(emitted.events)].type = "done"

====
